---- MODULE Spec2Model ----
(***************************************************************************)
(* Model of steps-xamarin-ios-test (src/main.go): the run of main() as a   *)
(* state machine, with getSimulatorInfo / getLatestIOSVersion and          *)
(* parseErrorFromResultLog translated from their loops.                    *)
(*                                                                         *)
(* Strings are sequences of tokens (a token is an indivisible run of       *)
(* bytes), so that prefix tests, trimming, parsing and formatting are      *)
(* computed rather than assumed.  A text is a sequence of lines, a line a  *)
(* sequence of tokens; the empty text is the empty Go string.              *)
(***************************************************************************)
EXTENDS Integers, Sequences, FiniteSets, TLC

\* ---------------------------------------------------------------- bounds
\* largest number of OS-version buckets in a simulator directory
MaxKeys == 2
\* largest number of lines of a report text given to parseErrorFromResultLog
MaxLines == 4

\* ------------------------------------------------------- program constants
\* bufio.MaxScanTokenSize: the longest line bufio.Scanner delivers is one
\* byte shorter (the Scanner of parseErrorFromResultLog keeps the default)
MaxScanTokenSize == 65536
\* go-version pads the parsed segments with zeros up to this many
VersionPadLen == 3

VARIABLES
    \* ---- main()
    pc,                 \* position of main(): the stage about to run
    configs,            \* ConfigsModel, built once from the environment
    solutionPath,       \* what pathutil.IsPathExists(XamarinSolution) answers
    simulatorInfo,      \* main's simulatorInfo
    env,                \* process environment written by os.Setenv
    projectOutputMap,   \* builder.CollectProjectOutputs result
    testProjectOutputMap, \* builder.CollectXamarinUITestProjectOutputs result
    unvisited,          \* test projects the range loop has not yet yielded
    testProjectName,    \* range variable of the outer loop ("" outside a body)
    refIdx,             \* index of the inner loop in ReferredProjectNames
    resultLog,          \* main's resultLog
    reportFile,         \* TestResult.xml in the deploy dir
    invocations,        \* nunitConsole.Run() calls made so far
    exports,            \* envman exports attempted so far
    errorLog,           \* messages logged by log.Errorf
    exitCode,           \* -1 while running, else the process exit status
    \* ---- getSimulatorInfo / getLatestIOSVersion
    osVersionSimulatorInfosMap, \* simulator.GetOsVersionSimulatorInfosMap()
    simPc,              \* position inside getSimulatorInfo
    osVersion,          \* getSimulatorInfo's osVersion parameter (reassigned)
    deviceName,         \* getSimulatorInfo's deviceName parameter
    keysLeft,           \* keys the range of getLatestIOSVersion has not yielded
    latestVersionPtr,   \* getLatestIOSVersion's latestVersionPtr
    simReturn,          \* what getSimulatorInfo returned: [info, err]
    \* ---- parseErrorFromResultLog
    content,            \* the argument
    parsePc,            \* "call" before, "returned" after
    parseReturn,        \* what it returned: [msg, err]
    \* ---- the environment of the test loop
    plan,               \* per (test project, project): the outcome fixed for the
                        \* pair, as a set of one outcome; {} when none is fixed
    firstRun            \* what an earlier run on the same inputs published

mainVars == <<pc, configs, solutionPath, simulatorInfo, env, projectOutputMap,
              testProjectOutputMap, unvisited, testProjectName, refIdx,
              resultLog, reportFile, invocations, exports, errorLog, exitCode>>
simVars == <<osVersionSimulatorInfosMap, simPc, osVersion, deviceName,
             keysLeft, latestVersionPtr, simReturn>>
parseVars == <<content, parsePc, parseReturn>>
orderVars == <<plan, firstRun>>
vars == <<mainVars, simVars, parseVars, orderVars>>

\* ------------------------------------------------------- string helpers
\* strings.HasPrefix
HasPrefix(s, prefix) ==
    Len(s) >= Len(prefix) /\ SubSeq(s, 1, Len(prefix)) = prefix

\* strings.TrimPrefix
TrimPrefix(s, prefix) ==
    IF HasPrefix(s, prefix) THEN SubSeq(s, Len(prefix) + 1, Len(s)) ELSE s

\* the white-space tokens strings.TrimSpace removes
IsSpace(t) == t \in {" ", "\t", "\r"}

RECURSIVE TrimLeft(_)
TrimLeft(s) ==
    IF s # <<>> /\ IsSpace(Head(s)) THEN TrimLeft(Tail(s)) ELSE s

RECURSIVE TrimRight(_)
TrimRight(s) ==
    IF s # <<>> /\ IsSpace(s[Len(s)])
    THEN TrimRight(SubSeq(s, 1, Len(s) - 1)) ELSE s

\* strings.TrimSpace
TrimSpace(s) == TrimRight(TrimLeft(s))

\* a one-line text holding one token: the Go string literal "tok"
Str(tok) == <<<<tok>>>>

\* ------------------------------------------ versions (hashicorp/go-version)
\* the decimal numerals that occur in OS-version keys, with their values
NumTokens == {"0", "9", "10"}

\* strconv.ParseInt of a numeral token
NumVal(t) == CASE t = "0" -> 0 [] t = "9" -> 9 [] t = "10" -> 10

\* the %d verb of fmt.Sprintf
NumStr(n) == CHOOSE t \in NumTokens : NumVal(t) = n

\* the nil *version.Version
NilVersion == [nil |-> TRUE, segments |-> <<>>]

\* a dotted sequence of numerals: what go-version's regexp accepts here
IsVersionStr(s) ==
    /\ Len(s) % 2 = 1
    /\ \A i \in 1..Len(s) :
          IF i % 2 = 1 THEN s[i] \in NumTokens ELSE s[i] = "."

\* the numerals of a dotted version string, as integers
WrittenSegments(s) == [i \in 1..((Len(s) + 1) \div 2) |-> NumVal(s[2 * i - 1])]

\* go-version pads the segments with zeros up to VersionPadLen
PadSegments(segs) ==
    [i \in 1..(IF Len(segs) < VersionPadLen THEN VersionPadLen ELSE Len(segs))
        |-> IF i <= Len(segs) THEN segs[i] ELSE 0]

\* a parser that takes any string for the version 0.0.0
NewVersionLenient(versionStr) ==
    [v |-> [nil |-> FALSE, segments |-> <<0, 0, 0>>], err |-> ""]

\* version.NewVersion(versionStr): [v, err]
NewVersion(versionStr) ==
    IF IsVersionStr(versionStr)
    THEN [v |-> [nil |-> FALSE,
                 segments |-> PadSegments(WrittenSegments(versionStr))],
          err |-> ""]
    ELSE [v |-> NilVersion, err |-> "Malformed version"]

\* Version.Compare on the segments, most significant first: -1, 0 or 1
RECURSIVE CompareSegments(_, _, _)
CompareSegments(a, b, i) ==
    IF i > Len(a) \/ i > Len(b) THEN 0
    ELSE IF a[i] < b[i] THEN -1
    ELSE IF a[i] > b[i] THEN 1
    ELSE CompareSegments(a, b, i + 1)

\* a comparison that looks at the major number only
GreaterThanMajorOnly(v, other) == v.segments[1] > other.segments[1]

\* versionPtr.GreaterThan(latestVersionPtr)
GreaterThan(v, other) == CompareSegments(v.segments, other.segments, 1) > 0

\* fmt.Sprintf("iOS %d.%d", versionSegments[0], versionSegments[1])
FormatIOSVersion(versionSegments) ==
    <<"iOS", " ", NumStr(versionSegments[1]), ".", NumStr(versionSegments[2])>>

\* ------------------------------------------------- simulator directory
\* simulator.InfoModel{}
EmptyInfo == [Name |-> "", ID |-> <<>>, Status |-> ""]

\* the sentinel value of simulator_os_version
Latest == <<"latest">>

\* dotted version strings of 1..VersionPadLen numerals over 9 and 10
RECURSIVE DottedVersions(_)
DottedVersions(n) ==
    IF n = 1 THEN {<<d>> : d \in {"9", "10"}}
    ELSE DottedVersions(n - 1) \cup
         {v \o <<".", d>> : v \in {w \in DottedVersions(n - 1) :
                                      Len(w) = 2 * (n - 1) - 1},
                            d \in {"9", "10"}}

\* bucket keys a simulator directory may hold: iOS keys with and without the
\* space, keys of other platform families, and iOS keys whose suffix is no
\* version
IOSKeys ==
    {<<"iOS">> \o sep \o v : sep \in {<<>>, <<" ">>},
                             v \in DottedVersions(VersionPadLen)}
OtherKeys == {<<"tvOS", " ", "10", ".", "9">>, <<"watchOS", " ", "10">>}
MalformedIOSKeys == {<<"iOS">>, <<"iOS", " ", "beta">>, <<"iOS", " ", "9", ".">>}
BucketKeys == IOSKeys \cup OtherKeys \cup MalformedIOSKeys

\* device-name lists of a bucket: near misses of "iPhone 8" only (longer
\* name, other case, shorter name), and the exact name, twice, after a near
\* miss
BucketNames ==
    { <<"iPhone 8 Plus", "iphone 8", "iPhone">>,
      <<"iPhone 8 Plus", "iPhone 8", "iPhone 8">> }

\* the bucket of key k listing the names ns; an entry's ID names its bucket
\* and its position, so that two entries never share an ID
Bucket(k, ns) ==
    [i \in 1..Len(ns) |->
        [Name |-> ns[i], ID |-> k \o <<"#", <<"1", "2", "3">>[i]>>,
         Status |-> "Shutdown"]]

\* the subsets of S of at most n elements
RECURSIVE SubsetsUpTo(_, _)
SubsetsUpTo(S, n) ==
    IF n = 0 THEN {{}}
    ELSE LET smaller == SubsetsUpTo(S, n - 1)
         IN smaller \cup {t \cup {x} : t \in smaller, x \in S}

\* the simulator directories with the bucket keys ks
SimulatorMaps(ks) ==
    {[k \in ks |-> Bucket(k, names[k])] : names \in [ks -> BucketNames]}

\* ------------------------------------------------------ getSimulatorInfo
\* the return of getSimulatorInfo with an error
SimError(msg) == [info |-> EmptyInfo, err |-> msg]

\* a match on any name: the first entry of the bucket
NameMatchesAny(info, name) == TRUE

\* info.Name == deviceName
NameMatches(info, name) == info.Name = name

\* the loop over infos: the first entry whose name is deviceName, or 0
FirstMatch(infos, name) ==
    IF \E i \in 1..Len(infos) : NameMatches(infos[i], name)
    THEN CHOOSE i \in 1..Len(infos) :
            /\ NameMatches(infos[i], name)
            /\ \A j \in 1..(i - 1) : ~NameMatches(infos[j], name)
    ELSE 0

\* getSimulatorInfo up to the branch on "latest" (lines 130-136)
getSimulatorInfo_Begin ==
    /\ pc = "getSimulatorInfo" /\ simPc = "call"
    /\ \E dirErr \in BOOLEAN :
         IF dirErr
         THEN /\ simPc' = "returned"
              /\ simReturn' = SimError("GetOsVersionSimulatorInfosMap failed")
         ELSE /\ simPc' = IF osVersion = Latest THEN "range" ELSE "lookup"
              /\ UNCHANGED simReturn
    /\ keysLeft' = DOMAIN osVersionSimulatorInfosMap
    /\ UNCHANGED <<osVersionSimulatorInfosMap, osVersion, deviceName,
                   latestVersionPtr, mainVars, parseVars, orderVars>>

\* one iteration of the range loop of getLatestIOSVersion over the map, whose
\* order Go leaves unspecified: any key not yet yielded may come next
getLatestIOSVersion_Range ==
    /\ pc = "getSimulatorInfo" /\ simPc = "range"
    /\ \E key \in keysLeft :
         /\ keysLeft' = keysLeft \ {key}
         /\ IF ~HasPrefix(key, <<"iOS">>)
            THEN UNCHANGED <<latestVersionPtr, simPc, simReturn>>
            ELSE LET versionStr == TrimSpace(TrimPrefix(key, <<"iOS">>))
                     parsed == NewVersion(versionStr)
                 IN IF parsed.err # ""
                    THEN /\ simPc' = "returned"
                         /\ simReturn' = SimError("Failed to parse version")
                         /\ UNCHANGED latestVersionPtr
                    ELSE /\ latestVersionPtr' =
                              IF latestVersionPtr.nil
                                 \/ GreaterThan(parsed.v, latestVersionPtr)
                              THEN parsed.v ELSE latestVersionPtr
                         /\ UNCHANGED <<simPc, simReturn>>
    /\ UNCHANGED <<osVersionSimulatorInfosMap, osVersion, deviceName,
                   mainVars, parseVars, orderVars>>

\* the end of getLatestIOSVersion (lines 118-127) and the assignment of its
\* result to osVersion (lines 138-141)
getLatestIOSVersion_Return ==
    /\ pc = "getSimulatorInfo" /\ simPc = "range" /\ keysLeft = {}
    /\ IF latestVersionPtr.nil
       THEN /\ simReturn' = SimError("Failed to determin latest iOS simulator version")
            /\ simPc' = "returned"
            /\ UNCHANGED osVersion
       ELSE IF Len(latestVersionPtr.segments) < 2
       THEN /\ simReturn' = SimError("Invalid version created")
            /\ simPc' = "returned"
            /\ UNCHANGED osVersion
       ELSE /\ osVersion' = FormatIOSVersion(latestVersionPtr.segments)
            /\ simPc' = "lookup"
            /\ UNCHANGED simReturn
    /\ UNCHANGED <<osVersionSimulatorInfosMap, deviceName, keysLeft,
                   latestVersionPtr, mainVars, parseVars, orderVars>>

\* the bucket lookup and the search for the device (lines 144-155)
getSimulatorInfo_Lookup ==
    /\ pc = "getSimulatorInfo" /\ simPc = "lookup"
    /\ simPc' = "returned"
    /\ IF osVersion \notin DOMAIN osVersionSimulatorInfosMap
       THEN simReturn' = SimError("No simulators found for os version")
       ELSE LET infos == osVersionSimulatorInfosMap[osVersion]
                i == FirstMatch(infos, deviceName)
            IN simReturn' =
                 IF i = 0
                 THEN SimError("No simulators found for os version, device name")
                 ELSE [info |-> infos[i], err |-> ""]
    /\ UNCHANGED <<osVersionSimulatorInfosMap, osVersion, deviceName, keysLeft,
                   latestVersionPtr, mainVars, parseVars, orderVars>>

\* ----------------------------------------------- parseErrorFromResultLog
\* the number of bytes of a token of a report line
TokLen(t) ==
    CASE t = "<failure>" -> 9
      [] t = "<message>" -> 9
      [] t = "</message>" -> 10
      [] t = "x*65536" -> MaxScanTokenSize
      [] OTHER -> 1

\* the number of bytes of a line, without its line terminator
RECURSIVE LineBytes(_)
LineBytes(line) ==
    IF line = <<>> THEN 0 ELSE TokLen(Head(line)) + LineBytes(Tail(line))

\* scanner.Scan(): false at the end of the text, and also (with ErrTooLong,
\* which parseErrorFromResultLog never reads) at a line that does not fit
\* the Scanner's buffer
ScanOK(lines) ==
    lines # <<>> /\ LineBytes(Head(lines)) < MaxScanTokenSize

\* a loop body that leaves the flag as it was
KeptFlag(failureLineFound) == failureLineFound

\* failureLineFound = false at the end of the loop body (line 190)
ClearedFlag(failureLineFound) == FALSE

\* the scanning loop (lines 178-191) over the lines not yet scanned
RECURSIVE ScanLoop(_, _, _)
ScanLoop(lines, failureLineFound, lastFailureMessage) ==
    IF ~ScanOK(lines) THEN lastFailureMessage
    ELSE LET line == TrimSpace(Head(lines))
         IN IF line = <<"<failure>">>
            THEN ScanLoop(Tail(lines), TRUE, lastFailureMessage)
            ELSE ScanLoop(Tail(lines), ClearedFlag(failureLineFound),
                          IF failureLineFound /\ HasPrefix(line, <<"<message>">>)
                          THEN line ELSE lastFailureMessage)

\* parseErrorFromResultLog(content): [msg, err]; the error is always nil
parseErrorFromResultLog(text) ==
    [msg |-> ScanLoop(text, FALSE, <<>>), err |-> ""]

\* lines a report may hold
ReportLines ==
    { <<"<failure>">>,
      <<" ", "<failure>", " ">>,
      <<"<failure>", "A">>,
      <<"<message>", "A", "</message>">>,
      <<" ", "<message>", "B", "</message>">>,
      <<"A", "<message>", "B">>,
      <<>>,
      <<"A">>,
      <<"x*65536">> }

\* report texts of at most MaxLines lines
ReportTexts == UNION {[1..n -> ReportLines] : n \in 0..MaxLines}

\* the call of parseErrorFromResultLog on the text held in content
parseErrorFromResultLog_Call ==
    /\ parsePc = "call"
    /\ parsePc' = "returned"
    /\ parseReturn' = parseErrorFromResultLog(content)
    /\ UNCHANGED <<content, mainVars, simVars, orderVars>>

\* ------------------------------------------------------------------ main
\* the keys exported with envman
ResultKey == "BITRISE_XAMARIN_TEST_RESULT"
FullResultsKey == "BITRISE_XAMARIN_TEST_FULL_RESULTS_TEXT"

\* one exportEnvironmentWithEnvman(keyStr, valueStr) call; ok is whether
\* cmd.Run() returned nil
Export(keyStr, valueStr, ok) == [key |-> keyStr, value |-> valueStr, ok |-> ok]

\* configs.validate(): the error message, "" for nil
validate(c, exist) ==
    IF c.XamarinSolution = "" THEN "no XamarinSolution parameter specified"
    ELSE IF exist = "error" THEN "failed to check if XamarinSolution exist"
    ELSE IF exist = "missing" THEN "XamarinSolution not exist"
    ELSE IF c.XamarinConfiguration = "" THEN "no XamarinConfiguration parameter specified"
    ELSE IF c.XamarinPlatform = "" THEN "no XamarinPlatform parameter specified"
    ELSE IF c.SimulatorDevice = "" THEN "no SimulatorDevice parameter specified"
    ELSE ""

\* an abort that exports another word than "failed"
failfAfterOtherToken(msg, logged, exported) ==
    /\ errorLog' = Append(logged, <<msg>>)
    /\ \E ok \in BOOLEAN :
          exports' = Append(exported, Export(ResultKey, Str("error"), ok))
    /\ exitCode' = 1
    /\ pc' = "exited"

\* an abort that exits without any export
failfAfterNoExport(msg, logged, exported) ==
    /\ errorLog' = Append(logged, <<msg>>)
    /\ exports' = exported
    /\ exitCode' = 1
    /\ pc' = "exited"

\* an abort that exits with status 0
failfAfterExitZero(msg, logged, exported) ==
    /\ errorLog' = Append(logged, <<msg>>)
    /\ \E ok \in BOOLEAN :
          exports' = Append(exported, Export(ResultKey, Str("failed"), ok))
    /\ exitCode' = 0
    /\ pc' = "exited"

\* an abort that logs and exports but lets the run go on from where it was
failfAfterContinues(msg, logged, exported) ==
    /\ errorLog' = Append(logged, <<msg>>)
    /\ \E ok \in BOOLEAN :
          exports' = Append(exported, Export(ResultKey, Str("failed"), ok))
    /\ exitCode' = 1
    /\ pc' = pc

\* an abort whose token export comes before what the step exported earlier
failfAfterTokenFirst(msg, logged, exported) ==
    /\ errorLog' = Append(logged, <<msg>>)
    /\ \E ok \in BOOLEAN :
          exports' = SubSeq(exported, 1, Len(exports))
                     \o <<Export(ResultKey, Str("failed"), ok)>>
                     \o SubSeq(exported, Len(exports) + 1, Len(exported))
    /\ exitCode' = 1
    /\ pc' = "exited"

\* failf: log the error, export the failure token (a failed export is only
\* warned about), os.Exit(1)
failfAfter(msg, logged, exported) ==
    /\ errorLog' = Append(logged, <<msg>>)
    /\ \E ok \in BOOLEAN :
          exports' = Append(exported, Export(ResultKey, Str("failed"), ok))
    /\ exitCode' = 1
    /\ pc' = "exited"

\* failf called with nothing logged or exported before it in the same step
failf(msg) == failfAfter(msg, errorLog, exports)

\* a test that also skips a test project with a single referred project
SkipsBelowTwo(testProjectOutput) ==
    Len(testProjectOutput.ReferredProjectNames) < 2

\* the test len(testProjectOutput.ReferredProjectNames) == 0 (line 301)
IsDegenerate(testProjectOutput) ==
    Len(testProjectOutput.ReferredProjectNames) = 0

\* a lookup that never finds the project
TrackedNever(pom, projectName) == FALSE

\* the ok of projectOutput, ok := projectOutputMap[projectName] (line 307)
Tracked(pom, projectName) == projectName \in DOMAIN pom

\* a guard that lets the empty text through
ShouldExportFullAlways(log) == TRUE

\* the guard resultLog != "" of both exports of the result text (lines 357
\* and 372)
ShouldExportFull(log) == log # <<>>

\* a loop that stops at the first output of type OutputTypeAPP
RECURSIVE AppPthFirst(_, _)
AppPthFirst(outputs, appPth) ==
    IF outputs = <<>> THEN appPth
    ELSE IF Head(outputs).OutputType = "app" THEN Head(outputs).Pth
    ELSE AppPthFirst(Tail(outputs), appPth)

\* the inner loop over projectOutput.Outputs (lines 312-317): the path of
\* the last output of type OutputTypeAPP, "" when there is none
RECURSIVE AppPth(_, _)
AppPth(outputs, appPth) ==
    IF outputs = <<>> THEN appPth
    ELSE AppPth(Tail(outputs),
                IF Head(outputs).OutputType = "app" THEN Head(outputs).Pth
                ELSE appPth)

\* testResultLogContent(pth): [content, err]; stat is what IsPathExists and
\* ReadStringFromFile run into: "ok", "statErr" or "readErr"
testResultLogContent(file, stat) ==
    IF stat = "statErr" THEN [content |-> <<>>, err |-> "Failed to check if path exist"]
    ELSE IF ~file.exists THEN [content |-> <<>>, err |-> "test result not exist"]
    ELSE IF stat = "readErr" THEN [content |-> <<>>, err |-> "Failed to read file"]
    ELSE [content |-> file.content, err |-> ""]

\* a verdict that never fails the run
RunFailedNever(runErr, read) == FALSE

\* a verdict that also fails the run on a missing or unreadable report or on
\* a report with a failure/message pair
RunFailedOrBadReport(runErr, read) ==
    \/ runErr
    \/ read.err # ""
    \/ parseErrorFromResultLog(read.content).msg # <<>>

\* the test err != nil (line 350) on what nunitConsole.Run() returned (line
\* 343); read, what testResultLogContent returned in between (line 344), is
\* not consulted
RunFailed(runErr, read) == runErr

\* ---- inputs of a run
BaseConfig ==
    [XamarinSolution |-> "App.sln", XamarinConfiguration |-> "Release",
     XamarinPlatform |-> "iPhoneSimulator", TestToRun |-> "",
     SimulatorDevice |-> "iPhone 8", SimulatorOsVersion |-> Latest,
     DeployDir |-> "deploy"]

Configs ==
    { BaseConfig,
      [BaseConfig EXCEPT !.SimulatorOsVersion = <<"iOS", " ", "9", ".", "10">>,
                         !.TestToRun = "Smoke"],
      [BaseConfig EXCEPT !.XamarinSolution = ""],
      [BaseConfig EXCEPT !.XamarinConfiguration = ""],
      [BaseConfig EXCEPT !.XamarinPlatform = ""],
      [BaseConfig EXCEPT !.SimulatorDevice = ""] }

\* simulator directories of the machine a whole run is checked on
RunSimulatorMaps ==
    { [k \in {<<"iOS", " ", "9", ".", "10">>, <<"iOS", " ", "10", ".", "9">>}
         |-> Bucket(k, <<"iPhone 8">>)],
      [k \in {<<"iOS", " ", "9", ".", "10">>}
         |-> Bucket(k, <<"iPhone 8 Plus", "iphone 8", "iPhone">>)] }

\* projects of the solution that tests may refer to
Projects == {"AppA", "AppB"}

\* output lists a project may have: no application bundle, one, or two (the
\* loop keeps the last)
OutputLists(p) ==
    { << [OutputType |-> "dll", Pth |-> <<"bin", p, ".dll">>] >>,
      << [OutputType |-> "app", Pth |-> <<"bin", p, ".app">>] >>,
      << [OutputType |-> "app", Pth |-> <<"obj", p, ".app">>],
         [OutputType |-> "dll", Pth |-> <<"bin", p, ".dll">>],
         [OutputType |-> "app", Pth |-> <<"bin", p, ".app">>] >> }

\* what builder.CollectProjectOutputs may return
ProjectOutputMaps ==
    UNION { {[p \in ps |-> [Outputs |-> outs[p]]] :
                outs \in {f \in [ps -> UNION {OutputLists(q) : q \in ps}] :
                             \A q \in ps : f[q] \in OutputLists(q)}}
            : ps \in SUBSET Projects }

\* test projects of the solution
TestProjects == {"UITest1", "UITest2"}

\* lists of referred project names ([]string): any projects in any order, a
\* name possibly more than once, up to as many entries as there are projects
ReferredLists ==
    UNION { [1..n -> Projects] : n \in 0..Cardinality(Projects) }

\* what builder.CollectXamarinUITestProjectOutputs may return
TestProjectOutputMaps ==
    UNION { {[t \in ts |-> [Output |-> [OutputType |-> "dll",
                                         Pth |-> <<"bin", t, ".dll">>],
                            ReferredProjectNames |-> refs[t]]] :
                refs \in [ts -> ReferredLists]}
            : ts \in SUBSET TestProjects }

\* reports one test-runner invocation may write: a passing report, a report
\* with a failure/message pair, an empty file
RunReports ==
    { << <<"A">> >>,
      << <<"<failure>">>, <<"<message>", "A", "</message>">> >>,
      <<>> }

\* the pairs of a test project and a project it may refer to
Pairs == TestProjects \X Projects

\* what one iteration of the inner loop may meet once the bundle is found:
\* os.Setenv failing or not (line 325), nunitConsole.Run() failing or not
\* (line 343), the runner writing a report or leaving the file as it was,
\* and what IsPathExists and ReadStringFromFile run into (lines 158-171);
\* when os.Setenv fails the step aborts and nothing else is met
Outcomes ==
    {o \in [setenvErr : BOOLEAN, runErr : BOOLEAN, writes : BOOLEAN,
             report : RunReports, stat : {"ok", "statErr", "readErr"}] :
        o.setenvErr =>
           (~o.runErr /\ ~o.writes /\ o.report = <<>> /\ o.stat = "ok")}

\* no outcome is fixed for any pair
AnyPlan == [pair \in Pairs |-> {}]

\* what the iteration for a pair may meet: the outcome fixed for the pair, any
\* outcome when none is fixed
MayMeet(fixed, pair) == IF fixed[pair] = {} THEN Outcomes ELSE fixed[pair]

\* the state of TestResult.xml before the first invocation
NoReportFile == [exists |-> FALSE, content |-> <<>>, by |-> 0]

\* no earlier run
NoFirstRun == [ran |-> FALSE, token |-> <<>>, exitCode |-> -1, texts |-> <<>>]

\* ---- the stages of main
loopVars == <<unvisited, testProjectName, refIdx, resultLog, reportFile,
              invocations>>

\* configs.validate() and its failf (lines 207-214); on success the call of
\* getSimulatorInfo(configs.SimulatorOsVersion, configs.SimulatorDevice)
main_Validate ==
    /\ pc = "validate"
    /\ LET err == validate(configs, solutionPath)
       IN IF err # ""
          THEN /\ failf("Issue with input")
               /\ UNCHANGED <<simPc, osVersion, deviceName>>
          ELSE /\ pc' = "getSimulatorInfo"
               /\ simPc' = "call"
               /\ osVersion' = configs.SimulatorOsVersion
               /\ deviceName' = configs.SimulatorDevice
               /\ UNCHANGED <<errorLog, exports, exitCode>>
    /\ UNCHANGED <<configs, solutionPath, simulatorInfo, env, projectOutputMap,
                   testProjectOutputMap, loopVars, osVersionSimulatorInfosMap,
                   keysLeft, latestVersionPtr, simReturn, parseVars, orderVars>>

\* the return of getSimulatorInfo, os.Setenv("IOS_SIMULATOR_UDID") and
\* nunit.SystemNunit3ConsolePath() (lines 219-235)
main_Simulator ==
    /\ pc = "getSimulatorInfo" /\ simPc = "returned"
    /\ IF simReturn.err # ""
       THEN /\ failf("Failed to get simulator infos")
            /\ UNCHANGED <<simulatorInfo, env>>
       ELSE /\ simulatorInfo' = simReturn.info
            /\ \E setenvErr \in BOOLEAN, nunitErr \in BOOLEAN :
                 IF setenvErr
                 THEN /\ failf("Failed to export simulator UDID")
                      /\ UNCHANGED env
                 ELSE /\ env' = [env EXCEPT !.IOS_SIMULATOR_UDID = simReturn.info.ID]
                      /\ IF nunitErr
                         THEN failf("Failed to get system insatlled nunit3-console.exe path")
                         ELSE /\ pc' = "build"
                              /\ UNCHANGED <<errorLog, exports, exitCode>>
    /\ UNCHANGED <<configs, solutionPath, projectOutputMap, testProjectOutputMap,
                   loopVars, simVars, parseVars, orderVars>>

\* builder.New and BuildAllXamarinUITestAndReferredProjects (lines 243-271);
\* build warnings are logged with log.Warnf and change nothing
main_Build ==
    /\ pc = "build"
    /\ \E newErr \in BOOLEAN, buildErr \in BOOLEAN :
         IF newErr THEN failf("Failed to create xamarin builder")
         ELSE IF buildErr THEN failf("Build failed")
         ELSE /\ pc' = "collect"
              /\ UNCHANGED <<errorLog, exports, exitCode>>
    /\ UNCHANGED <<configs, solutionPath, simulatorInfo, env, projectOutputMap,
                   testProjectOutputMap, loopVars, simVars, parseVars, orderVars>>

\* CollectProjectOutputs, CollectXamarinUITestProjectOutputs, nunit.New and
\* the initialisation of resultLog (lines 273-298)
main_Collect ==
    /\ pc = "collect"
    /\ \E outErr \in BOOLEAN, testErr \in BOOLEAN, nunitErr \in BOOLEAN,
          pom \in ProjectOutputMaps, tpom \in TestProjectOutputMaps :
         IF outErr
         THEN /\ failf("Failed to collect project outputs")
              /\ UNCHANGED <<projectOutputMap, testProjectOutputMap, unvisited,
                             resultLog>>
         ELSE /\ projectOutputMap' = pom
              /\ IF testErr
                 THEN /\ failf("Failed to collect test project output")
                      /\ UNCHANGED <<testProjectOutputMap, unvisited, resultLog>>
                 ELSE /\ testProjectOutputMap' = tpom
                      /\ IF nunitErr
                         THEN /\ failf("Failed to create nunit console model")
                              /\ UNCHANGED <<unvisited, resultLog>>
                         ELSE /\ pc' = "loop"
                              /\ unvisited' = DOMAIN tpom
                              /\ resultLog' = <<>>
                              /\ UNCHANGED <<errorLog, exports, exitCode>>
    /\ UNCHANGED <<configs, solutionPath, simulatorInfo, env, testProjectName,
                   refIdx, reportFile, invocations, simVars, parseVars, orderVars>>

\* the head of the outer range loop (lines 300-304): any test project not yet
\* yielded may come next; one without referred projects is skipped
main_NextTestProject ==
    /\ pc = "loop" /\ testProjectName = ""
    /\ \E name \in unvisited :
         /\ unvisited' = unvisited \ {name}
         /\ IF IsDegenerate(testProjectOutputMap[name])
            THEN UNCHANGED <<testProjectName, refIdx>>
            ELSE testProjectName' = name /\ refIdx' = 1
    /\ UNCHANGED <<pc, configs, solutionPath, simulatorInfo, env,
                   projectOutputMap, testProjectOutputMap, resultLog, reportFile,
                   invocations, exports, errorLog, exitCode, simVars, parseVars, orderVars>>

\* one iteration of the inner loop (lines 306-365) for the referred project at
\* refIdx: the lookup, the bundle check, APP_BUNDLE_PATH, the invocation, the
\* re-read of the report and, on a failed invocation, the abort
main_Reference ==
    /\ pc = "loop" /\ testProjectName # ""
    /\ LET testProjectOutput == testProjectOutputMap[testProjectName]
           refs == testProjectOutput.ReferredProjectNames
           projectName == refs[refIdx]
           advance ==
               /\ refIdx' = IF refIdx = Len(refs) THEN 0 ELSE refIdx + 1
               /\ testProjectName' =
                    IF refIdx = Len(refs) THEN "" ELSE testProjectName
               /\ UNCHANGED <<pc, errorLog, exports, exitCode>>
       IN
       IF ~Tracked(projectOutputMap, projectName)
       THEN /\ advance
            /\ UNCHANGED <<env, resultLog, reportFile, invocations>>
       ELSE
       LET appPth == AppPth(projectOutputMap[projectName].Outputs, <<>>)
       IN
       IF appPth = <<>>
       THEN /\ failf("No app generated for project")
            /\ UNCHANGED <<env, resultLog, reportFile, invocations,
                           testProjectName, refIdx>>
       ELSE
       \E met \in MayMeet(plan, <<testProjectName, projectName>>) :
       IF met.setenvErr
       THEN /\ failf("Failed to set APP_BUNDLE_PATH environment")
            /\ UNCHANGED <<env, resultLog, reportFile, invocations,
                           testProjectName, refIdx>>
       ELSE
       LET runErr == met.runErr
           newEnv == [env EXCEPT !.APP_BUNDLE_PATH = appPth]
           n == Len(invocations) + 1
           file == IF met.writes
                   THEN [exists |-> TRUE, content |-> met.report, by |-> n]
                   ELSE reportFile
           read == testResultLogContent(file, met.stat)
           parsed == parseErrorFromResultLog(read.content)
       IN
       /\ env' = newEnv
       /\ invocations' = Append(invocations,
              [testProject |-> testProjectName, project |-> projectName,
               dll |-> testProjectOutput.Output.Pth,
               testToRun |-> configs.TestToRun,
               appBundlePath |-> newEnv.APP_BUNDLE_PATH,
               udid |-> newEnv.IOS_SIMULATOR_UDID,
               ok |-> ~runErr])
       /\ reportFile' = file
       /\ resultLog' = read.content
       /\ IF ~RunFailed(runErr, read)
          THEN advance
          ELSE /\ \E okFull \in BOOLEAN :
                    failfAfter("Test failed",
                       IF parsed.err = "" /\ parsed.msg # <<>>
                       THEN Append(errorLog, parsed.msg) ELSE errorLog,
                       IF ShouldExportFull(read.content)
                       THEN Append(exports,
                                   Export(FullResultsKey, read.content, okFull))
                       ELSE exports)
               /\ UNCHANGED <<testProjectName, refIdx>>
    /\ UNCHANGED <<configs, solutionPath, simulatorInfo, projectOutputMap,
                   testProjectOutputMap, unvisited, simVars, parseVars, orderVars>>

\* the end of main (lines 368-377): the success token, the result text when
\* it is not empty, and the return from main
main_End ==
    /\ pc = "loop" /\ testProjectName = "" /\ unvisited = {}
    /\ \E okResult \in BOOLEAN, okFull \in BOOLEAN :
         exports' =
           Append(exports, Export(ResultKey, Str("succeeded"), okResult))
           \o (IF ShouldExportFull(resultLog)
               THEN << Export(FullResultsKey, resultLog, okFull) >>
               ELSE <<>>)
    /\ exitCode' = 0
    /\ pc' = "exited"
    /\ UNCHANGED <<configs, solutionPath, simulatorInfo, env, projectOutputMap,
                   testProjectOutputMap, loopVars, errorLog, simVars, parseVars, orderVars>>

\* ------------------------------------------------------- specifications
\* main's variables before main has run
MainIdle ==
    /\ simulatorInfo = EmptyInfo
    /\ env = [IOS_SIMULATOR_UDID |-> <<>>, APP_BUNDLE_PATH |-> <<>>]
    /\ projectOutputMap = <<>>
    /\ testProjectOutputMap = <<>>
    /\ unvisited = {}
    /\ testProjectName = ""
    /\ refIdx = 0
    /\ resultLog = <<>>
    /\ reportFile = NoReportFile
    /\ invocations = <<>>
    /\ exports = <<>>
    /\ errorLog = <<>>
    /\ exitCode = -1

\* getSimulatorInfo's variables before it is called
SimIdle ==
    /\ keysLeft = {}
    /\ latestVersionPtr = NilVersion
    /\ simReturn = [info |-> EmptyInfo, err |-> ""]

\* parseErrorFromResultLog's variables when it is not under check
ParseIdle ==
    /\ content = <<>>
    /\ parsePc = "idle"
    /\ parseReturn = [msg |-> <<>>, err |-> ""]

\* a whole run of main
Init ==
    /\ pc = "validate"
    /\ configs \in Configs
    /\ solutionPath \in {"exists", "missing", "error"}
    /\ osVersionSimulatorInfosMap \in RunSimulatorMaps
    /\ simPc = "idle"
    /\ osVersion = <<>>
    /\ deviceName = ""
    /\ MainIdle /\ SimIdle /\ ParseIdle
    /\ plan = AnyPlan /\ firstRun = NoFirstRun

SimNext ==
    \/ getSimulatorInfo_Begin
    \/ getLatestIOSVersion_Range
    \/ getLatestIOSVersion_Return
    \/ getSimulatorInfo_Lookup

Next ==
    \/ main_Validate
    \/ getSimulatorInfo_Begin
    \/ getLatestIOSVersion_Range
    \/ getLatestIOSVersion_Return
    \/ getSimulatorInfo_Lookup
    \/ main_Simulator
    \/ main_Build
    \/ main_Collect
    \/ main_NextTestProject
    \/ main_Reference
    \/ main_End

Spec == Init /\ [][Next]_vars

\* getSimulatorInfo(osVersion, deviceName) on its own, over simulator
\* directories of at most MaxKeys buckets
SimInit ==
    /\ pc = "getSimulatorInfo"
    /\ configs = BaseConfig
    /\ solutionPath = "exists"
    /\ \E ks \in SubsetsUpTo(BucketKeys, MaxKeys) :
          osVersionSimulatorInfosMap \in SimulatorMaps(ks)
    /\ simPc = "call"
    /\ osVersion \in {Latest, <<"iOS", " ", "9", ".", "10">>,
                      <<"iOS", " ", "10", ".", "0">>}
    /\ deviceName \in {"iPhone 8", "iPhone 8 Plus"}
    /\ MainIdle /\ SimIdle /\ ParseIdle
    /\ plan = AnyPlan /\ firstRun = NoFirstRun

SpecSim == SimInit /\ [][SimNext]_vars

\* parseErrorFromResultLog(content) on its own, over report texts of at most
\* MaxLines lines
ParseInit ==
    /\ pc = "parseErrorFromResultLog"
    /\ configs = BaseConfig
    /\ solutionPath = "exists"
    /\ osVersionSimulatorInfosMap = <<>>
    /\ simPc = "idle"
    /\ osVersion = <<>>
    /\ deviceName = ""
    /\ content \in ReportTexts
    /\ parsePc = "call"
    /\ parseReturn = [msg |-> <<>>, err |-> ""]
    /\ MainIdle /\ SimIdle
    /\ plan = AnyPlan /\ firstRun = NoFirstRun

ParseNext == parseErrorFromResultLog_Call

SpecParse == ParseInit /\ [][ParseNext]_vars

\* the values exported so far under one key, in the order of the exports
Published(keyStr) ==
    LET sel == SelectSeq(exports, LAMBDA e : e.key = keyStr)
    IN [i \in 1..Len(sel) |-> sel[i].value]

\* the step run once more on the same inputs, from the start of the test loop
\* (lines 294-300): what the run that has ended published is kept in firstRun
\* and main's loop state is what it was before the first iteration
main_SecondRun ==
    /\ pc = "exited" /\ ~firstRun.ran
    /\ firstRun' = [ran |-> TRUE, token |-> Published(ResultKey),
                    exitCode |-> exitCode, texts |-> Published(FullResultsKey)]
    /\ pc' = "loop"
    /\ unvisited' = DOMAIN testProjectOutputMap
    /\ testProjectName' = ""
    /\ refIdx' = 0
    /\ resultLog' = <<>>
    /\ reportFile' = NoReportFile
    /\ invocations' = <<>>
    /\ exports' = <<>>
    /\ errorLog' = <<>>
    /\ exitCode' = -1
    /\ env' = [env EXCEPT !.APP_BUNDLE_PATH = <<>>]
    /\ UNCHANGED <<configs, solutionPath, simulatorInfo, projectOutputMap,
                   testProjectOutputMap, plan, simVars, parseVars>>

\* per-pair outcomes the order of the loop is checked on: a passing run with
\* a passing report, a passing run whose report has a failure/message pair,
\* a failing run with such a report, a failing run that writes no report
OrderOutcomes ==
    {o \in Outcomes :
        /\ ~o.setenvErr /\ o.stat = "ok"
        /\ IF o.writes
           THEN o.report # <<>> /\ (o.runErr => o.report # << <<"A">> >>)
           ELSE o.runErr /\ o.report = <<>>}

\* project-output maps the order of the loop is checked on: AppA with a
\* bundle; AppB with a bundle, without one, or not in the map
OrderProjectOutputMaps ==
    {pom \in ProjectOutputMaps :
        /\ "AppA" \in DOMAIN pom
        /\ AppPth(pom["AppA"].Outputs, <<>>) # <<>>
        /\ \A p \in DOMAIN pom : Len(pom[p].Outputs) = 1}

\* the pairs the inner loop goes through for a test-project map
PairsOf(tpom) ==
    {pair \in Pairs :
        /\ pair[1] \in DOMAIN tpom
        /\ \E i \in DOMAIN tpom[pair[1]].ReferredProjectNames :
              tpom[pair[1]].ReferredProjectNames[i] = pair[2]}

\* the test loop of main (lines 294-377) from its start, over a map of both
\* test projects, with the outcome of every pair fixed
OrderInit ==
    /\ pc = "loop"
    /\ configs = BaseConfig
    /\ solutionPath = "exists"
    /\ osVersionSimulatorInfosMap =
          [k \in {<<"iOS", " ", "9", ".", "10">>} |-> Bucket(k, <<"iPhone 8">>)]
    /\ simPc = "returned"
    /\ osVersion = <<"iOS", " ", "9", ".", "10">>
    /\ deviceName = "iPhone 8"
    /\ keysLeft = {}
    /\ latestVersionPtr = NilVersion
    /\ simReturn = [info |-> osVersionSimulatorInfosMap[osVersion][1], err |-> ""]
    /\ simulatorInfo = simReturn.info
    /\ env = [IOS_SIMULATOR_UDID |-> simulatorInfo.ID, APP_BUNDLE_PATH |-> <<>>]
    /\ projectOutputMap \in OrderProjectOutputMaps
    /\ testProjectOutputMap \in
          {tpom \in TestProjectOutputMaps : DOMAIN tpom = TestProjects}
    /\ unvisited = DOMAIN testProjectOutputMap
    /\ testProjectName = ""
    /\ refIdx = 0
    /\ resultLog = <<>>
    /\ reportFile = NoReportFile
    /\ invocations = <<>>
    /\ exports = <<>>
    /\ errorLog = <<>>
    /\ exitCode = -1
    /\ ParseIdle
    /\ \E fixed \in [PairsOf(testProjectOutputMap) -> OrderOutcomes] :
          plan = [pair \in Pairs |->
                    IF pair \in PairsOf(testProjectOutputMap)
                    THEN {fixed[pair]} ELSE {}]
    /\ firstRun = NoFirstRun

OrderNext ==
    \/ main_NextTestProject
    \/ main_Reference
    \/ main_End
    \/ main_SecondRun

SpecOrder == OrderInit /\ [][OrderNext]_vars

\* ------------------------------------------------------------ properties
\* the exports made so far under one key
ExportsOf(keyStr) == {i \in DOMAIN exports : exports[i].key = keyStr}

\* the last message logged by log.Errorf, <<>> when there is none
LastError == IF errorLog = <<>> THEN <<>> ELSE errorLog[Len(errorLog)]

\* a fatal condition has occurred: failf has been called
Fatal == errorLog # <<>>

\* the nunitConsole.Run() calls made for a pair
RunsOf(t, p) ==
    {i \in DOMAIN invocations :
        invocations[i].testProject = t /\ invocations[i].project = p}

\* the project has an output of the application-bundle type
HasApp(p) ==
    /\ p \in DOMAIN projectOutputMap
    /\ \E i \in DOMAIN projectOutputMap[p].Outputs :
          projectOutputMap[p].Outputs[i].OutputType = "app"

\* C1: once the process has stopped, the result key has been exported, and
\* every export under the result key carries "succeeded" or "failed"
C1_ResultTokenOnEveryTerminalPath ==
    /\ pc = "exited" => ExportsOf(ResultKey) # {}
    /\ \A i \in ExportsOf(ResultKey) :
          exports[i].value \in {Str("succeeded"), Str("failed")}

\* a run that stopped on a fatal condition after an invocation had succeeded
C1_Witness ==
    /\ pc = "exited" /\ exitCode = 1 /\ Len(invocations) >= 1
    /\ exports[Len(exports)].value = Str("failed")

\* the fatal conditions C2 lists
ListedFatal ==
    LastError \in { <<"Issue with input">>, <<"Failed to get simulator infos">>,
                    <<"Build failed">>, <<"No app generated for project">>,
                    <<"Test failed">> }

\* C2 as stated: on a listed fatal condition the failure token is exported,
\* the held result text is exported whenever it is not empty, and the exit
\* status is not zero
C2_FatalExportsHeldText ==
    (pc = "exited" /\ ListedFatal) =>
        /\ exitCode = 1
        /\ \E i \in ExportsOf(ResultKey) : exports[i].value = Str("failed")
        /\ resultLog # <<>> =>
              \E i \in ExportsOf(FullResultsKey) : exports[i].value = resultLog

\* C2 amended: on every fatal condition the failure token is the last export
\* and the exit status is 1; the held result text is exported exactly when
\* the fatal condition is a failed invocation and the text is not empty
C2_FatalExportsTokenAndTextOnTestFailure ==
    (pc = "exited" /\ Fatal) =>
        /\ exitCode = 1
        /\ exports # <<>>
        /\ exports[Len(exports)].key = ResultKey
        /\ exports[Len(exports)].value = Str("failed")
        /\ Cardinality(ExportsOf(ResultKey)) = 1
        /\ IF LastError = <<"Test failed">> /\ resultLog # <<>>
           THEN /\ Cardinality(ExportsOf(FullResultsKey)) = 1
                /\ \A i \in ExportsOf(FullResultsKey) : exports[i].value = resultLog
           ELSE ExportsOf(FullResultsKey) = {}

\* a missing-bundle abort while result text of an earlier invocation is held
C2_Witness ==
    /\ pc = "exited"
    /\ LastError = <<"No app generated for project">>
    /\ resultLog # <<>>
    /\ ExportsOf(FullResultsKey) = {}

\* the test project at hand refers to two tracked projects of which only the
\* first has an application bundle
C3_Scenario ==
    /\ testProjectName # ""
    /\ LET refs == testProjectOutputMap[testProjectName].ReferredProjectNames
       IN /\ Len(refs) = 2
          /\ refs[1] \in DOMAIN projectOutputMap /\ HasApp(refs[1])
          /\ refs[2] \in DOMAIN projectOutputMap /\ ~HasApp(refs[2])

\* C3 as stated: in the scenario the run aborts at the second reference and
\* the runner was never invoked for the first
C3_FirstNeverRuns ==
    (C3_Scenario /\ pc = "exited" /\ refIdx = 2
       /\ LastError = <<"No app generated for project">>) =>
        RunsOf(testProjectName,
               testProjectOutputMap[testProjectName].ReferredProjectNames[1]) = {}

\* C3 amended: in the scenario the runner is invoked once, successfully, for
\* the first reference before the second is looked at, never for the second,
\* and once the second has been processed the run has aborted on its missing
\* bundle
C3_FirstRunsBeforeSecondIsChecked ==
    (C3_Scenario /\ refIdx = 2) =>
        LET refs == testProjectOutputMap[testProjectName].ReferredProjectNames
            first == RunsOf(testProjectName, refs[1])
        IN /\ Cardinality(first) = 1
           /\ \A i \in first : invocations[i].ok
           /\ RunsOf(testProjectName, refs[2]) = {}
           /\ pc = "exited" =>
                 /\ LastError = <<"No app generated for project">>
                 /\ exitCode = 1

\* the abort at the second reference of the scenario
C3_Witness ==
    /\ C3_Scenario /\ pc = "exited" /\ refIdx = 2
    /\ LastError = <<"No app generated for project">>
    /\ Len(invocations) = 1

\* the pairs the runner has to be invoked for
MatchedPair(t, p) ==
    /\ t \in DOMAIN testProjectOutputMap
    /\ \E i \in DOMAIN testProjectOutputMap[t].ReferredProjectNames :
          testProjectOutputMap[t].ReferredProjectNames[i] = p
    /\ HasApp(p)

\* C4 as stated: when the loop has completed without a fatal condition the
\* runner has been invoked exactly once for every matched pair and for
\* nothing else
C4_OnceForEachMatchedPair ==
    (pc = "exited" /\ exitCode = 0) =>
        /\ \A t \in TestProjects, p \in Projects :
              Cardinality(RunsOf(t, p)) = IF MatchedPair(t, p) THEN 1 ELSE 0
        /\ \A i \in DOMAIN invocations :
              /\ invocations[i].testProject \in TestProjects
              /\ invocations[i].project \in Projects

\* the entries of a test project's list of referred names that name p
EntriesOf(t, p) ==
    IF t \in DOMAIN testProjectOutputMap
    THEN {i \in DOMAIN testProjectOutputMap[t].ReferredProjectNames :
             testProjectOutputMap[t].ReferredProjectNames[i] = p}
    ELSE {}

\* C4 amended: when the loop has completed without a fatal condition the
\* runner has been invoked once for every entry of a test project's list of
\* referred names whose project is in the project-output map with an
\* application bundle (twice for a pair whose project is listed twice), in
\* the order of the list, and for nothing else: none for a test project
\* without referred projects, none for a project absent from the map
C4_OncePerMatchedEntry ==
    (pc = "exited" /\ exitCode = 0) =>
        /\ \A t \in TestProjects, p \in Projects :
              Cardinality(RunsOf(t, p)) =
                 IF HasApp(p) THEN Cardinality(EntriesOf(t, p)) ELSE 0
        /\ \A i \in DOMAIN invocations :
              /\ invocations[i].testProject \in TestProjects
              /\ invocations[i].project \in Projects
        /\ \A t \in DOMAIN testProjectOutputMap :
              LET refs == testProjectOutputMap[t].ReferredProjectNames
                  runs == SelectSeq(invocations, LAMBDA r : r.testProject = t)
                  matched == SelectSeq(refs, LAMBDA p : HasApp(p))
              IN /\ Len(runs) = Len(matched)
                 /\ \A k \in DOMAIN runs : runs[k].project = matched[k]

\* a completed run over a test project that lists the same project twice,
\* invoked twice for that pair, next to a test project without referred
\* projects
C4_Witness ==
    /\ pc = "exited" /\ exitCode = 0
    /\ Len(invocations) = 2
    /\ invocations[1].testProject = invocations[2].testProject
    /\ invocations[1].project = invocations[2].project
    /\ \E t \in DOMAIN testProjectOutputMap :
          testProjectOutputMap[t].ReferredProjectNames = <<>>

\* a completed run with one invocation and a reference that is not in the
\* project-output map
C4_AbsentReferenceSkipped ==
    /\ pc = "exited" /\ exitCode = 0
    /\ Len(invocations) = 1
    /\ \E t \in DOMAIN testProjectOutputMap :
          \E i \in DOMAIN testProjectOutputMap[t].ReferredProjectNames :
             testProjectOutputMap[t].ReferredProjectNames[i]
                \notin DOMAIN projectOutputMap

\* the keys of the directory that belong to the iOS family
IOSFamilyKeys ==
    {k \in DOMAIN osVersionSimulatorInfosMap : HasPrefix(k, <<"iOS">>)}

\* the numbers written in a key, in order, with zeros after them: the
\* (major, minor, patch) the key names
KeyNumbers(k) ==
    LET numerals == SelectSeq(k, LAMBDA t : t \in NumTokens)
    IN [i \in 1..3 |-> IF i <= Len(numerals) THEN NumVal(numerals[i]) ELSE 0]

\* a is a greater version than b: greater at the first component they differ in
Beats(a, b) ==
    \E i \in 1..3 : a[i] > b[i] /\ \A j \in 1..(i - 1) : a[j] = b[j]

\* getLatestIOSVersion has returned a key (every iOS key parsed)
LatestResolved ==
    /\ simPc \in {"lookup", "returned"}
    /\ keysLeft = {}
    /\ ~latestVersionPtr.nil
    /\ simReturn.err # "Failed to parse version"

\* C5: the key "latest" resolves to is "iOS <major>.<minor>" of an iOS key
\* that no other iOS key of the directory beats, whatever the order in which
\* the range loop yielded the keys
C5_LatestIsGreatestMajorMinor ==
    LatestResolved =>
        \E k \in IOSFamilyKeys :
            /\ \A other \in IOSFamilyKeys : ~Beats(KeyNumbers(other), KeyNumbers(k))
            /\ osVersion = <<"iOS", " ", NumStr(KeyNumbers(k)[1]), ".",
                             NumStr(KeyNumbers(k)[2])>>

\* 9.10 wins over 9.9
C5_Witness ==
    /\ LatestResolved
    /\ DOMAIN osVersionSimulatorInfosMap =
          {<<"iOS", " ", "9", ".", "9">>, <<"iOS", " ", "9", ".", "10">>}
    /\ osVersion = <<"iOS", " ", "9", ".", "10">>

\* C6: getSimulatorInfo succeeds only with an entry of the bucket of the
\* resolved key whose name is exactly the requested name; a key that is not
\* in the directory or a name that no entry of the bucket has gives an error
\* and no simulator
C6_ExactBucketAndNameOrError ==
    simPc = "returned" =>
        /\ simReturn.err = "" =>
              /\ osVersion \in DOMAIN osVersionSimulatorInfosMap
              /\ \E i \in DOMAIN osVersionSimulatorInfosMap[osVersion] :
                    simReturn.info = osVersionSimulatorInfosMap[osVersion][i]
              /\ simReturn.info.Name = deviceName
              /\ HasPrefix(simReturn.info.ID, osVersion \o <<"#">>)
        /\ simReturn.err # "" => simReturn.info = EmptyInfo
        /\ osVersion \notin DOMAIN osVersionSimulatorInfosMap =>
              simReturn.err # ""
        /\ (/\ osVersion \in DOMAIN osVersionSimulatorInfosMap
            /\ \A i \in DOMAIN osVersionSimulatorInfosMap[osVersion] :
                  osVersionSimulatorInfosMap[osVersion][i].Name # deviceName) =>
              simReturn.err # ""

\* an error for "iPhone 8" from a bucket that only holds names resembling it,
\* while another bucket of the directory holds the exact name
C6_Witness ==
    /\ simPc = "returned"
    /\ simReturn.err = "No simulators found for os version, device name"
    /\ deviceName = "iPhone 8"
    /\ \E i \in DOMAIN osVersionSimulatorInfosMap[osVersion] :
          osVersionSimulatorInfosMap[osVersion][i].Name = "iPhone 8 Plus"
    /\ \E k \in DOMAIN osVersionSimulatorInfosMap :
          \E i \in DOMAIN osVersionSimulatorInfosMap[k] :
             osVersionSimulatorInfosMap[k][i].Name = "iPhone 8"

\* C7: the result text is never exported empty, and a run that ends with an
\* empty held text has exported no result text
C7_FullResultsNeverEmpty ==
    /\ \A i \in ExportsOf(FullResultsKey) : exports[i].value # <<>>
    /\ (pc = "exited" /\ resultLog = <<>>) => ExportsOf(FullResultsKey) = {}

\* a failed invocation that left no report file: only the token is exported
C7_Witness ==
    /\ pc = "exited" /\ LastError = <<"Test failed">>
    /\ ~reportFile.exists /\ resultLog = <<>>
    /\ Len(exports) = 1

\* C8: the exit status is 1 after a fatal condition and 0 when the loop has
\* completed without one; a failed export does not keep the later export from
\* being attempted
C8_ExitStatus ==
    /\ pc # "exited" => exitCode = -1
    /\ pc = "exited" => exitCode = (IF Fatal THEN 1 ELSE 0)
    /\ (pc = "exited" /\ ~Fatal) =>
          /\ unvisited = {} /\ testProjectName = ""
          /\ resultLog # <<>> => ExportsOf(FullResultsKey) # {}

\* exit status 0 although the export failed and the report of the last of
\* two invocations could not be read
C8_Witness ==
    /\ pc = "exited" /\ exitCode = 0
    /\ Len(invocations) = 2
    /\ reportFile.exists /\ reportFile.content # <<>> /\ resultLog = <<>>
    /\ Len(exports) = 1 /\ ~exports[1].ok

\* the positions of the message lines that directly follow a failure line
AdjacentPairs(text) ==
    {i \in 2..Len(text) :
        /\ TrimSpace(text[i - 1]) = <<"<failure>">>
        /\ HasPrefix(TrimSpace(text[i]), <<"<message>">>)}

\* the greatest element of a non-empty set of numbers
Max(S) == CHOOSE x \in S : \A y \in S : y <= x

\* C9 as stated: the message line of the last failure/message pair of the
\* text is returned, trimmed
C9_LastPairReturned ==
    (parsePc = "returned" /\ AdjacentPairs(content) # {}) =>
        parseReturn.msg = TrimSpace(content[Max(AdjacentPairs(content))])

\* no line of the text is too long for the Scanner
ScannerReadsAll(text) ==
    \A i \in DOMAIN text : LineBytes(text[i]) < MaxScanTokenSize

\* what does hold of the code: the last pair is returned when every line fits
\* the Scanner's buffer
C9_LastPairReturnedWhenLinesFit ==
    (parsePc = "returned" /\ AdjacentPairs(content) # {}
       /\ ScannerReadsAll(content)) =>
        parseReturn.msg = TrimSpace(content[Max(AdjacentPairs(content))])

\* C10: only adjacent pairs count: what is returned is the message line of an
\* adjacent pair, or the empty string when the text has none, and never an
\* error
C10_OnlyAdjacentPairs ==
    parsePc = "returned" =>
        /\ parseReturn.err = ""
        /\ AdjacentPairs(content) = {} => parseReturn.msg = <<>>
        /\ parseReturn.msg # <<>> =>
              \E i \in AdjacentPairs(content) :
                 parseReturn.msg = TrimSpace(content[i])

\* a failure line, a blank line, then a message line: nothing is returned
C10_Witness ==
    /\ parsePc = "returned"
    /\ content = << <<"<failure>">>, <<>>, <<"<message>", "A", "</message>">> >>
    /\ parseReturn.msg = <<>>


\* C11 as stated: on an abort the failure token is exported first and the
\* held result text after it
C11_TokenBeforeText ==
    (pc = "exited" /\ Fatal) =>
        \A i \in ExportsOf(ResultKey), j \in ExportsOf(FullResultsKey) : i < j

\* C11 amended: on an abort the held result text, when it is exported at all
\* (a failed invocation with a non-empty text), is exported first and the
\* failure token after it, as the last thing before the process stops
C11_TextBeforeToken ==
    (pc = "exited" /\ Fatal) =>
        /\ exports # <<>>
        /\ exports[Len(exports)] \in
              {Export(ResultKey, Str("failed"), ok) : ok \in BOOLEAN}
        /\ \A i \in ExportsOf(ResultKey), j \in ExportsOf(FullResultsKey) : j < i
        /\ (LastError = <<"Test failed">> /\ resultLog # <<>>) =>
              /\ Len(exports) = 2
              /\ exports[1].key = FullResultsKey
              /\ exports[2].key = ResultKey

\* a failed invocation whose report was exported, then the token
C11_Witness ==
    /\ pc = "exited" /\ LastError = <<"Test failed">>
    /\ Len(exports) = 2
    /\ exports[1].key = FullResultsKey /\ exports[1].value = resultLog
    /\ exports[2].key = ResultKey


\* the position of a stage in main (lines 212, 219, 243, 273, 300), the
\* process having exited after the last of them
StageRank(p) ==
    CASE p = "validate" -> 0
      [] p = "getSimulatorInfo" -> 1
      [] p = "build" -> 2
      [] p = "collect" -> 3
      [] p = "loop" -> 4
      [] p = "exited" -> 5

\* C12: a fatal condition is absorbing. The stages run in the order validate,
\* resolve simulator, build, collect, pairing loop; the step that raises a
\* fatal condition ends in the exited process with status 1, and from a state
\* where a fatal condition has occurred nothing happens any more: no stage,
\* no invocation, no export
C12_FatalIsAbsorbing ==
    [][ /\ Fatal' => (pc' = "exited" /\ exitCode' = 1)
        /\ Fatal => UNCHANGED <<pc, invocations, exports, errorLog, exitCode,
                                env, resultLog, reportFile>>
        /\ pc = "exited" => UNCHANGED vars
        /\ Len(invocations') > Len(invocations) =>
              (~Fatal /\ pc = "loop" /\ Len(invocations') = Len(invocations) + 1)
        /\ pc' # pc =>
              \/ pc' = "exited"
              \/ StageRank(pc') = StageRank(pc) + 1 ]_vars

\* a first pair's invocation failed while another pair was still to be run
C12_Witness ==
    /\ pc = "exited" /\ Fatal
    /\ Len(invocations) = 1 /\ ~invocations[1].ok
    /\ \/ unvisited # {}
       \/ refIdx < Len(testProjectOutputMap[testProjectName].ReferredProjectNames)


\* the positions of the application bundles among a project's outputs
AppOutputs(p) ==
    {j \in DOMAIN projectOutputMap[p].Outputs :
        projectOutputMap[p].Outputs[j].OutputType = "app"}

\* C14: at every test-runner invocation APP_BUNDLE_PATH holds the
\* application-bundle path of the referred project of the pair being run (the
\* last application output of that project), the target assembly is the
\* output path of the pair's test project, the filter is the configured
\* test-to-run value and IOS_SIMULATOR_UDID holds the identifier of the
\* simulator resolved at the start of the run
C14_InvocationSeesItsPair ==
    \A i \in DOMAIN invocations :
       LET inv == invocations[i]
       IN /\ inv.testProject \in DOMAIN testProjectOutputMap
          /\ inv.project \in DOMAIN projectOutputMap
          /\ \E k \in DOMAIN testProjectOutputMap[inv.testProject].ReferredProjectNames :
                testProjectOutputMap[inv.testProject].ReferredProjectNames[k]
                   = inv.project
          /\ AppOutputs(inv.project) # {}
          /\ inv.appBundlePath =
                projectOutputMap[inv.project].Outputs[Max(AppOutputs(inv.project))].Pth
          /\ inv.dll = testProjectOutputMap[inv.testProject].Output.Pth
          /\ inv.testToRun = configs.TestToRun
          /\ inv.udid = simulatorInfo.ID
          /\ simulatorInfo = simReturn.info /\ simReturn.err = ""
          /\ simulatorInfo.ID # <<>>
          /\ (i = Len(invocations) => env.APP_BUNDLE_PATH = inv.appBundlePath)

\* two invocations for two projects, one of which has two application
\* outputs, with a configured filter
C14_Witness ==
    /\ Len(invocations) = 2
    /\ invocations[1].project # invocations[2].project
    /\ invocations[1].appBundlePath # invocations[2].appBundlePath
    /\ Cardinality(AppOutputs(invocations[2].project)) = 2
    /\ configs.TestToRun = "Smoke"


\* C15: the verdict depends only on what the test runner reported. A failed
\* invocation is the last one and ends the run with "Test failed", the
\* "failed" token and status 1, whatever the report file is; the fatal
\* condition "Test failed" comes from a failed invocation only, so an
\* invocation that reported success never raises it, whatever the report is
C15_VerdictFromRunnerOnly ==
    /\ \A i \in DOMAIN invocations :
          ~invocations[i].ok =>
             /\ i = Len(invocations)
             /\ pc = "exited" /\ exitCode = 1
             /\ LastError = <<"Test failed">>
             /\ exports[Len(exports)].key = ResultKey
             /\ exports[Len(exports)].value = Str("failed")
    /\ LastError = <<"Test failed">> =>
          /\ invocations # <<>>
          /\ ~invocations[Len(invocations)].ok
    /\ (pc = "loop" /\ invocations # <<>>) =>
          (~Fatal /\ \A i \in DOMAIN invocations : invocations[i].ok)

\* a first invocation succeeded although its report has a failure/message
\* pair; a second one failed and its report could not be read
C15_Witness ==
    /\ pc = "exited" /\ Len(invocations) = 2
    /\ invocations[1].ok /\ ~invocations[2].ok
    /\ reportFile.by = 1
    /\ parseErrorFromResultLog(reportFile.content).msg # <<>>
    /\ resultLog = <<>>
    /\ Len(exports) = 1


\* the iOS keys of the directory whose suffix is no dotted version
UnparsableKeys ==
    {k \in IOSFamilyKeys :
        LET suffix == TrimSpace(TrimPrefix(k, <<"iOS">>))
        IN \/ Len(suffix) % 2 = 0
           \/ \E i \in 1..Len(suffix) :
                 IF i % 2 = 1 THEN suffix[i] \notin NumTokens
                 ELSE suffix[i] # "."}

\* getSimulatorInfo read the directory and went through the range loop of
\* getLatestIOSVersion (osVersion was "latest"), and the loop is over
LatestAttempted ==
    /\ simPc \in {"lookup", "returned"}
    /\ simReturn.err # "GetOsVersionSimulatorInfosMap failed"
    /\ \/ osVersion = Latest
       \/ keysLeft # DOMAIN osVersionSimulatorInfosMap
       \/ ~latestVersionPtr.nil

\* C16: when "latest" is resolved over a directory with an iOS key whose
\* suffix is no version, the resolution fails with the parse error, whatever
\* the other keys are and whatever the order the loop yields the keys in; the
\* loop never goes past such a key
C16_UnparsableKeyFailsLatest ==
    /\ simPc = "range" => UnparsableKeys \subseteq keysLeft
    /\ (LatestAttempted /\ UnparsableKeys # {}) =>
          /\ simPc = "returned"
          /\ simReturn = SimError("Failed to parse version")
          /\ osVersion = Latest

\* the loop met a well-formed iOS key first and the malformed one last
C16_Witness ==
    /\ simPc = "returned"
    /\ simReturn.err = "Failed to parse version"
    /\ UnparsableKeys # {}
    /\ ~latestVersionPtr.nil
    /\ keysLeft = {}


\* C17 as stated: whenever getLatestIOSVersion succeeds, the key it returns is
\* a key of the directory it was given, so that with "latest" the lookup
\* never fails with "No simulators found for os version"
C17_ReturnedKeyIsAKey ==
    LatestResolved =>
       /\ osVersion \in DOMAIN osVersionSimulatorInfosMap
       /\ simReturn.err # "No simulators found for os version"

\* what does hold: the returned key is a key of the directory when every iOS
\* key is written "iOS <major>.<minor>", with the space and two numerals
C17_ReturnedKeyIsAKeyForMajorMinorKeys ==
    (LatestResolved /\ \A k \in IOSFamilyKeys :
                          /\ Len(k) = 5
                          /\ k[2] = " " /\ k[4] = "."
                          /\ k[3] \in NumTokens /\ k[5] \in NumTokens) =>
       /\ osVersion \in DOMAIN osVersionSimulatorInfosMap
       /\ simReturn.err # "No simulators found for os version"


\* C18: in every run exactly one export of the result token is attempted, at
\* the moment the process ends: "succeeded" if and only if the pairing loop
\* completed with every performed invocation reporting success and no fatal
\* condition (zero invocations included), "failed" if and only if a fatal
\* condition occurred
C18_ExactlyOneTokenExport ==
    /\ pc # "exited" => (ExportsOf(ResultKey) = {} /\ ~Fatal)
    /\ pc = "exited" =>
          /\ Cardinality(ExportsOf(ResultKey)) = 1
          /\ LET token == exports[CHOOSE i \in ExportsOf(ResultKey) : TRUE].value
             IN /\ token \in {Str("succeeded"), Str("failed")}
                /\ token = Str("succeeded") <=>
                      /\ ~Fatal
                      /\ unvisited = {} /\ testProjectName = ""
                      /\ \A i \in DOMAIN invocations : invocations[i].ok
                /\ token = Str("failed") <=> Fatal

\* a run that succeeded without any invocation although a test project
\* refers to a project: the project is not in the project-output map
C18_Witness ==
    /\ pc = "exited" /\ exitCode = 0
    /\ invocations = <<>>
    /\ ExportsOf(ResultKey) = {1}
    /\ exports[1].value = Str("succeeded")
    /\ \E t \in DOMAIN testProjectOutputMap :
          ~IsDegenerate(testProjectOutputMap[t])


\* C19 as stated: the result text held after an invocation, and so the text
\* exported on its failure or at the end of the run, is the report written
\* by that same, most recent invocation; text an earlier invocation left in
\* the report file is never held for a later invocation that wrote none
C19_HeldTextIsOfLatestInvocation ==
    (invocations # <<>> /\ resultLog # <<>>) =>
       /\ reportFile.by = Len(invocations)
       /\ resultLog = reportFile.content

\* what does hold: the held text is empty or what the report file contains,
\* whichever invocation wrote it, and every exported text was held text
C19_HeldTextIsFileContentOrEmpty ==
    /\ resultLog \in {<<>>, reportFile.content}
    /\ reportFile.by <= Len(invocations)
    /\ \A i \in ExportsOf(FullResultsKey) : exports[i].value = resultLog


\* C13 as stated: for fixed configuration, project-output map, test-project
\* map and fixed per-pair outcomes and reports, a run of the loop publishes
\* the same result token, exit status and full-results text whatever the
\* order the range loop yields the test projects in
C13_SameOutcomeInEveryOrder ==
    (firstRun.ran /\ pc = "exited") =>
       /\ Published(ResultKey) = firstRun.token
       /\ exitCode = firstRun.exitCode
       /\ Published(FullResultsKey) = firstRun.texts

\* what does hold: the result token and the exit status are the same in
\* every order
C13_SameTokenAndStatusInEveryOrder ==
    (firstRun.ran /\ pc = "exited") =>
       /\ Published(ResultKey) = firstRun.token
       /\ exitCode = firstRun.exitCode

====
